---- MODULE Spec2Model ----
(***************************************************************************)
(* Model of the SwingSet vat loader (makeVatLoader: createVatDynamically,  *)
(* recreateDynamicVat, recreateStaticVat, create, loadTestVat) and of the  *)
(* controller that drives the kernel's run-queue (buildVatController:      *)
(* step, run, queueToExport, start).                                       *)
(*                                                                         *)
(* SpecLoader explores calls of the vat loader over bounded sets of source *)
(* descriptors and option bags.  SpecKernel explores a controller stepping *)
(* a kernel, and a second controller rebuilt from a persisted checkpoint.  *)
(***************************************************************************)
EXTENDS Integers, Sequences, FiniteSets, TLC

VARIABLES
  vatAdminRootKref,          \* makeVatLoader(stuff).vatAdminRootKref
  overrideVatManagerOptions, \* makeVatLoader(stuff).overrideVatManagerOptions
  call,                      \* the loader call in progress or just settled
  log,                       \* collaborator invocations made by that call, in order
  c,                         \* the controller under test: its kernel
  states,                    \* state0, state1, ...: getAllState after each step
  c2,                        \* a controller built from one of the recorded states
  engine                     \* the delivery engine seen crank by crank: meters,
                             \* reference tables, the crank in progress

loaderVars == <<vatAdminRootKref, overrideVatManagerOptions, call, log>>
kernelVars == <<c, states, c2>>
vars == <<vatAdminRootKref, overrideVatManagerOptions, call, log, c, states, c2, engine>>

-----------------------------------------------------------------------------
(* Bounds *)

\* largest number of keys in an options bag handed to the loader
MaxOptKeys == 1

\* number of deliveries a vat answers with a further message
MaxPings == 1

\* number of queueToExport calls made on the rebuilt controller
MaxExternal == 1

\* largest budget a meter starts with
MaxBudget == 2

\* number of cranks the delivery engine starts
MaxCranks == 3

\* number of top-ups of a meter
MaxTopUps == 1

\* number of kernel restarts
MaxRestarts == 1

-----------------------------------------------------------------------------
(* JavaScript values, as far as the loader inspects them *)

Undefined == [t |-> "undefined", v |-> ""]
Null == [t |-> "null", v |-> ""]
Str(s) == [t |-> "string", v |-> s]
Num(s) == [t |-> "number", v |-> s]
True == [t |-> "boolean", v |-> "true"]
False == [t |-> "boolean", v |-> "false"]
Obj(id) == [t |-> "object", v |-> id]
Bool(b) == IF b THEN True ELSE False

\* ToBoolean
Truthy(x) == x \notin {Undefined, Null, Str(""), Num("0"), False}

\* the typeof operator: typeof null is 'object'
TypeOf(x) == IF x.t = "null" THEN "object" ELSE x.t

\* obj[k] of an object literal
Get(obj, k) == IF k \in DOMAIN obj THEN obj[k] ELSE Undefined

\* a destructuring default (`k = d`) applies when the property is undefined
Default(x, d) == IF x = Undefined THEN d ELSE x

\* { ...a, ...b }
Merge(a, b) ==
  [k \in (DOMAIN a) \cup (DOMAIN b) |-> IF k \in DOMAIN b THEN b[k] ELSE a[k]]

NoOptions == [k \in {} |-> Undefined]

NoError == "none"

-----------------------------------------------------------------------------
(* Collaborators of the vat loader *)

\* kernelKeeper.getNamedBundle: the config.bundles table
namedBundles == [n \in {"zcf", "legacy"} |->
                   IF n = "zcf" THEN Obj("zcfBundle") ELSE Str("legacySource")]

getNamedBundle(name) ==
  IF name.t = "string" /\ name.v \in DOMAIN namedBundles
  THEN namedBundles[name.v] ELSE Undefined

\* kernelKeeper.getBundle: content-addressed bundles
bundlesByID == [n \in {"b1-good"} |-> Obj("goodBundle")]

getBundle(bundleID) ==
  IF bundleID.t = "string" /\ bundleID.v \in DOMAIN bundlesByID
  THEN bundlesByID[bundleID.v] ELSE Undefined

\* one invocation of a collaborator, as it appears in the log
Event(fn, vatID, arg) == [fn |-> fn, vat |-> vatID, arg |-> arg]

\* assertKnownOptions(options, knownNames): every key of options is known
assertKnownOptions(options, knownNames) == DOMAIN options \subseteq knownNames

-----------------------------------------------------------------------------
(* The vat loader *)

allowedDynamicOptions_withName ==
  {"description", "meterID", "managerType", "enableSetup", "enablePipelining",
   "virtualObjectCacheSize", "useTranscript", "reapInterval", "name"}

allowedDynamicOptions ==
  {"description", "meterID", "managerType", "enableSetup", "enablePipelining",
   "virtualObjectCacheSize", "useTranscript", "reapInterval"}

\* the static list with the meterID of the dynamic list
allowedStaticOptions_withMeterID ==
  {"description", "name", "meterID", "managerType", "enableDisavow", "enableSetup",
   "enablePipelining", "virtualObjectCacheSize", "useTranscript", "reapInterval"}

allowedStaticOptions ==
  {"description", "name", "managerType", "enableDisavow", "enableSetup",
   "enablePipelining", "virtualObjectCacheSize", "useTranscript", "reapInterval"}

\* outcome of an async function: the promise's state, the collaborator
\* invocations made on the way, and the managerOptions composed (if any)
Rejected(err, events, managerOptions) ==
  [status |-> "rejected", err |-> err, events |-> events, value |-> <<>>,
   managerOptions |-> managerOptions]

Fulfilled(value, events, managerOptions) ==
  [status |-> "fulfilled", err |-> NoError, events |-> events, value |-> value,
   managerOptions |-> managerOptions]

\* a synchronous throw, before any promise exists
Thrown(err) ==
  [status |-> "thrown", err |-> err, events |-> <<>>, value |-> <<>>,
   managerOptions |-> NoOptions]

\* the chain with its first two branches exchanged: a bundleName is looked
\* up before an inline bundle is considered
resolveBundle_nameFirst(vatID, source) ==
  IF "bundleName" \in DOMAIN source
  THEN LET b == getNamedBundle(source["bundleName"]) IN
       [bundle |-> b,
        events |-> <<Event("getNamedBundle", vatID, <<source["bundleName"].v>>)>>,
        err |-> IF Truthy(b) THEN NoError ELSE "unknown bundle name",
        sourceDesc |-> <<"from bundleName", source["bundleName"].v>>]
  ELSE IF "bundle" \in DOMAIN source
  THEN [bundle |-> source["bundle"], events |-> <<>>, err |-> NoError,
        sourceDesc |-> <<"from source bundle">>]
  ELSE IF "bundleID" \in DOMAIN source
  THEN LET b == getBundle(source["bundleID"]) IN
       [bundle |-> b,
        events |-> <<Event("getBundle", vatID, <<source["bundleID"].v>>)>>,
        err |-> IF Truthy(b) THEN NoError ELSE "unknown bundleID",
        sourceDesc |-> <<"from bundleID", source["bundleID"].v>>]
  ELSE [bundle |-> Undefined, events |-> <<>>,
        err |-> "unknown vat source descriptor", sourceDesc |-> <<>>]

\* the chain falling back on the bundleID when the keeper does not know the
\* bundleName
resolveBundle_fallBack(vatID, source) ==
  IF "bundle" \in DOMAIN source
  THEN [bundle |-> source["bundle"], events |-> <<>>, err |-> NoError,
        sourceDesc |-> <<"from source bundle">>]
  ELSE IF "bundleName" \in DOMAIN source
  THEN LET n == getNamedBundle(source["bundleName"])
           again == ~Truthy(n) /\ "bundleID" \in DOMAIN source
           b == IF again THEN getBundle(source["bundleID"]) ELSE n
       IN
       [bundle |-> b,
        events |-> <<Event("getNamedBundle", vatID, <<source["bundleName"].v>>)>>
                   \o (IF again
                       THEN <<Event("getBundle", vatID, <<source["bundleID"].v>>)>>
                       ELSE <<>>),
        err |-> IF Truthy(b) THEN NoError ELSE "unknown bundle name",
        sourceDesc |-> <<"from bundleName", source["bundleName"].v>>]
  ELSE IF "bundleID" \in DOMAIN source
  THEN LET b == getBundle(source["bundleID"]) IN
       [bundle |-> b,
        events |-> <<Event("getBundle", vatID, <<source["bundleID"].v>>)>>,
        err |-> IF Truthy(b) THEN NoError ELSE "unknown bundleID",
        sourceDesc |-> <<"from bundleID", source["bundleID"].v>>]
  ELSE [bundle |-> Undefined, events |-> <<>>,
        err |-> "unknown vat source descriptor", sourceDesc |-> <<>>]

\* the if/else-if chain of create that picks the form of the source
resolveBundle(vatID, source) ==
  IF "bundle" \in DOMAIN source
  THEN [bundle |-> source["bundle"], events |-> <<>>, err |-> NoError,
        sourceDesc |-> <<"from source bundle">>]
  ELSE IF "bundleName" \in DOMAIN source
  THEN LET b == getNamedBundle(source["bundleName"]) IN
       [bundle |-> b,
        events |-> <<Event("getNamedBundle", vatID, <<source["bundleName"].v>>)>>,
        err |-> IF Truthy(b) THEN NoError ELSE "unknown bundle name",
        sourceDesc |-> <<"from bundleName", source["bundleName"].v>>]
  ELSE IF "bundleID" \in DOMAIN source
  THEN LET b == getBundle(source["bundleID"]) IN
       [bundle |-> b,
        events |-> <<Event("getBundle", vatID, <<source["bundleID"].v>>)>>,
        err |-> IF Truthy(b) THEN NoError ELSE "unknown bundleID",
        sourceDesc |-> <<"from bundleID", source["bundleID"].v>>]
  ELSE [bundle |-> Undefined, events |-> <<>>,
        err |-> "unknown vat source descriptor", sourceDesc |-> <<>>]

\* the literal with the overrides spread first instead of last
composeManagerOptions_overridesFirst(vatID, bundle, options) ==
  Merge(overrideVatManagerOptions,
        [k \in {"managerType", "bundle", "metered", "enableDisavow", "enableSetup",
                "enablePipelining", "sourcedConsole", "virtualObjectCacheSize",
                "useTranscript", "name"} |->
           CASE k = "managerType" -> Get(options, "managerType")
             [] k = "bundle" -> bundle
             [] k = "metered" -> Bool(Truthy(Get(options, "meterID")))
             [] k = "enableDisavow" -> Default(Get(options, "enableDisavow"), False)
             [] k = "enableSetup" -> Default(Get(options, "enableSetup"), False)
             [] k = "enablePipelining" -> Default(Get(options, "enablePipelining"), False)
             [] k = "sourcedConsole" -> Obj(vatID)
             [] k = "virtualObjectCacheSize" -> Get(options, "virtualObjectCacheSize")
             [] k = "useTranscript" -> Default(Get(options, "useTranscript"), True)
             [] k = "name" -> Get(options, "name")])

\* the literal with useTranscript defaulted as `useTranscript || true`
composeManagerOptions_orDefault(vatID, bundle, options) ==
  Merge([k \in {"managerType", "bundle", "metered", "enableDisavow", "enableSetup",
                "enablePipelining", "sourcedConsole", "virtualObjectCacheSize",
                "useTranscript", "name"} |->
           CASE k = "managerType" -> Get(options, "managerType")
             [] k = "bundle" -> bundle
             [] k = "metered" -> Bool(Truthy(Get(options, "meterID")))
             [] k = "enableDisavow" -> Default(Get(options, "enableDisavow"), False)
             [] k = "enableSetup" -> Default(Get(options, "enableSetup"), False)
             [] k = "enablePipelining" -> Default(Get(options, "enablePipelining"), False)
             [] k = "sourcedConsole" -> Obj(vatID)
             [] k = "virtualObjectCacheSize" -> Get(options, "virtualObjectCacheSize")
             [] k = "useTranscript" ->
                  IF Truthy(Get(options, "useTranscript"))
                  THEN Get(options, "useTranscript") ELSE True
             [] k = "name" -> Get(options, "name")],
        overrideVatManagerOptions)

\* the managerOptions literal of create
composeManagerOptions(vatID, bundle, options) ==
  Merge([k \in {"managerType", "bundle", "metered", "enableDisavow", "enableSetup",
                "enablePipelining", "sourcedConsole", "virtualObjectCacheSize",
                "useTranscript", "name"} |->
           CASE k = "managerType" -> Get(options, "managerType")
             [] k = "bundle" -> bundle
             [] k = "metered" -> Bool(Truthy(Get(options, "meterID")))
             [] k = "enableDisavow" -> Default(Get(options, "enableDisavow"), False)
             [] k = "enableSetup" -> Default(Get(options, "enableSetup"), False)
             [] k = "enablePipelining" -> Default(Get(options, "enablePipelining"), False)
             [] k = "sourcedConsole" -> Obj(vatID)
             [] k = "virtualObjectCacheSize" -> Get(options, "virtualObjectCacheSize")
             [] k = "useTranscript" -> Default(Get(options, "useTranscript"), True)
             [] k = "name" -> Get(options, "name")],
        overrideVatManagerOptions)

\* create calling finish() whether or not the vat was reported as starting
createResolved_alwaysFinish(vatID, res, translators, options, isDynamic, env) ==
  IF res.err # NoError
  THEN Rejected(res.err, res.events, NoOptions)
  ELSE IF TypeOf(res.bundle) # "object"
  THEN Rejected("vat creation requires bundle", res.events, NoOptions)
  ELSE IF ~assertKnownOptions(options,
             IF isDynamic THEN allowedDynamicOptions ELSE allowedStaticOptions)
  THEN Rejected("unknown option", res.events, NoOptions)
  ELSE
  LET managerOptions == composeManagerOptions(vatID, res.bundle, options)
      upToFactory ==
        res.events
        \o <<Event("provideVatSlogger", vatID, res.sourceDesc),
             Event("makeSourcedConsole", vatID, <<>>),
             Event("buildVatSyscallHandler", vatID, <<translators>>)>>
        \o (IF env.starting THEN <<Event("startup", vatID, <<>>)>> ELSE <<>>)
        \o <<Event("vatManagerFactory", vatID, <<vatID, translators>>)>>
  IN IF env.factory = "reject"
     THEN Rejected("manager factory failed", upToFactory, managerOptions)
     ELSE Fulfilled(<<"manager", vatID>>,
                    upToFactory
                    \o <<Event("finish", vatID, <<>>)>>,
                    managerOptions)

\* create building the syscall handler only after the manager factory was called
createResolved_handlerLate(vatID, res, translators, options, isDynamic, env) ==
  IF res.err # NoError
  THEN Rejected(res.err, res.events, NoOptions)
  ELSE IF TypeOf(res.bundle) # "object"
  THEN Rejected("vat creation requires bundle", res.events, NoOptions)
  ELSE IF ~assertKnownOptions(options,
             IF isDynamic THEN allowedDynamicOptions ELSE allowedStaticOptions)
  THEN Rejected("unknown option", res.events, NoOptions)
  ELSE
  LET managerOptions == composeManagerOptions(vatID, res.bundle, options)
      upToFactory ==
        res.events
        \o <<Event("provideVatSlogger", vatID, res.sourceDesc),
             Event("makeSourcedConsole", vatID, <<>>)>>
        \o (IF env.starting THEN <<Event("startup", vatID, <<>>)>> ELSE <<>>)
        \o <<Event("vatManagerFactory", vatID, <<vatID, translators>>),
             Event("buildVatSyscallHandler", vatID, <<translators>>)>>
  IN IF env.factory = "reject"
     THEN Rejected("manager factory failed", upToFactory, managerOptions)
     ELSE Fulfilled(<<"manager", vatID>>,
                    upToFactory
                    \o (IF env.starting THEN <<Event("finish", vatID, <<>>)>> ELSE <<>>),
                    managerOptions)

\* create calling finish() in a finally block, whether the factory succeeded or not
createResolved_finallyFinish(vatID, res, translators, options, isDynamic, env) ==
  IF res.err # NoError
  THEN Rejected(res.err, res.events, NoOptions)
  ELSE IF TypeOf(res.bundle) # "object"
  THEN Rejected("vat creation requires bundle", res.events, NoOptions)
  ELSE IF ~assertKnownOptions(options,
             IF isDynamic THEN allowedDynamicOptions ELSE allowedStaticOptions)
  THEN Rejected("unknown option", res.events, NoOptions)
  ELSE
  LET managerOptions == composeManagerOptions(vatID, res.bundle, options)
      upToFactory ==
        res.events
        \o <<Event("provideVatSlogger", vatID, res.sourceDesc),
             Event("makeSourcedConsole", vatID, <<>>),
             Event("buildVatSyscallHandler", vatID, <<translators>>)>>
        \o (IF env.starting THEN <<Event("startup", vatID, <<>>)>> ELSE <<>>)
        \o <<Event("vatManagerFactory", vatID, <<vatID, translators>>)>>
  IN IF env.factory = "reject"
     THEN Rejected("manager factory failed",
                   upToFactory
                   \o (IF env.starting THEN <<Event("finish", vatID, <<>>)>> ELSE <<>>),
                   managerOptions)
     ELSE Fulfilled(<<"manager", vatID>>,
                    upToFactory
                    \o (IF env.starting THEN <<Event("finish", vatID, <<>>)>> ELSE <<>>),
                    managerOptions)

\* create validating the options before it looks at the resolved bundle
createResolved_optionsFirst(vatID, res, translators, options, isDynamic, env) ==
  IF ~assertKnownOptions(options,
        IF isDynamic THEN allowedDynamicOptions ELSE allowedStaticOptions)
  THEN Rejected("unknown option", res.events, NoOptions)
  ELSE IF res.err # NoError
  THEN Rejected(res.err, res.events, NoOptions)
  ELSE IF TypeOf(res.bundle) # "object"
  THEN Rejected("vat creation requires bundle", res.events, NoOptions)
  ELSE
  LET managerOptions == composeManagerOptions(vatID, res.bundle, options)
      upToFactory ==
        res.events
        \o <<Event("provideVatSlogger", vatID, res.sourceDesc),
             Event("makeSourcedConsole", vatID, <<>>),
             Event("buildVatSyscallHandler", vatID, <<translators>>)>>
        \o (IF env.starting THEN <<Event("startup", vatID, <<>>)>> ELSE <<>>)
        \o <<Event("vatManagerFactory", vatID, <<vatID, translators>>)>>
  IN IF env.factory = "reject"
     THEN Rejected("manager factory failed", upToFactory, managerOptions)
     ELSE Fulfilled(<<"manager", vatID>>,
                    upToFactory
                    \o (IF env.starting THEN <<Event("finish", vatID, <<>>)>> ELSE <<>>),
                    managerOptions)

\* create from `assert.typeof(vatSourceBundle, 'object')` on, given the
\* outcome `res` of resolving the source.
\* env.starting: the `starting` flag returned by provideVatSlogger;
\* env.factory: whether the promise of vatManagerFactory fulfils or rejects
createResolved(vatID, res, translators, options, isDynamic, env) ==
  IF res.err # NoError
  THEN Rejected(res.err, res.events, NoOptions)
  ELSE IF TypeOf(res.bundle) # "object"
  THEN Rejected("vat creation requires bundle", res.events, NoOptions)
  ELSE IF ~assertKnownOptions(options,
             IF isDynamic THEN allowedDynamicOptions ELSE allowedStaticOptions)
  THEN Rejected("unknown option", res.events, NoOptions)
  ELSE
  LET managerOptions == composeManagerOptions(vatID, res.bundle, options)
      upToFactory ==
        res.events
        \o <<Event("provideVatSlogger", vatID, res.sourceDesc),
             Event("makeSourcedConsole", vatID, <<>>),
             Event("buildVatSyscallHandler", vatID, <<translators>>)>>
        \o (IF env.starting THEN <<Event("startup", vatID, <<>>)>> ELSE <<>>)
        \o <<Event("vatManagerFactory", vatID, <<vatID, translators>>)>>
  IN IF env.factory = "reject"
     THEN Rejected("manager factory failed", upToFactory, managerOptions)
     ELSE Fulfilled(<<"manager", vatID>>,
                    upToFactory
                    \o (IF env.starting THEN <<Event("finish", vatID, <<>>)>> ELSE <<>>),
                    managerOptions)

\* create with the source checks lost: each form is tried in turn, present
\* or not
create_tryEachForm(vatID, source, translators, options, isDynamic, env) ==
  createResolved(vatID,
    IF "bundle" \in DOMAIN source THEN resolveBundle(vatID, source)
    ELSE LET n == getNamedBundle(Get(source, "bundleName"))
             b == IF Truthy(n) THEN n ELSE getBundle(Get(source, "bundleID"))
         IN [bundle |-> b,
             events |-> <<Event("getNamedBundle", vatID, <<Get(source, "bundleName").v>>)>>
                        \o (IF Truthy(n) THEN <<>>
                            ELSE <<Event("getBundle", vatID,
                                         <<Get(source, "bundleID").v>>)>>),
             err |-> IF Truthy(b) THEN NoError ELSE "unknown bundle",
             sourceDesc |-> <<"from keeper">>],
    translators, options, isDynamic, env)

create(vatID, source, translators, options, isDynamic, env) ==
  IF ~("bundle" \in DOMAIN source \/ "bundleName" \in DOMAIN source
       \/ "bundleID" \in DOMAIN source)
  THEN Rejected("broken source", <<>>, NoOptions)
  ELSE createResolved(vatID, resolveBundle(vatID, source), translators, options,
                      isDynamic, env)

\* a catch that reports nothing and lets the caller carry on
catchPanicRethrow_swallow(vatID, r) ==
  IF r.status = "rejected"
  THEN [r EXCEPT !.status = "fulfilled"]
  ELSE r

\* the .catch(err => { panic(...); throw err; }) of the two recreate functions
catchPanicRethrow(vatID, r) ==
  IF r.status = "rejected"
  THEN [r EXCEPT !.events = Append(@, Event("panic", vatID, <<r.err>>))]
  ELSE r

\* createVatDynamically without its precondition
createVatDynamically_noAssert(vatID, source, translators, dynamicOptions, env) ==
  create(vatID, source, translators, dynamicOptions, TRUE, env)

\* createVatDynamically with the catch of the recreate functions
createVatDynamically_panics(vatID, source, translators, dynamicOptions, env) ==
  IF ~Truthy(vatAdminRootKref)
  THEN Thrown("initializeKernel did not set vatAdminRootKref")
  ELSE catchPanicRethrow(vatID,
         create(vatID, source, translators, dynamicOptions, TRUE, env))

createVatDynamically(vatID, source, translators, dynamicOptions, env) ==
  IF ~Truthy(vatAdminRootKref)
  THEN Thrown("initializeKernel did not set vatAdminRootKref")
  ELSE create(vatID, source, translators, dynamicOptions, TRUE, env)

recreateDynamicVat(vatID, source, translators, dynamicOptions, env) ==
  catchPanicRethrow(vatID, create(vatID, source, translators, dynamicOptions, TRUE, env))

recreateStaticVat(vatID, source, translators, staticOptions, env) ==
  catchPanicRethrow(vatID, create(vatID, source, translators, staticOptions, FALSE, env))

\* loadTestVat with the caller's creationOptions spread after the forced
\* values
loadTestVat_optionsLast(vatID, setup, translators, creationOptions, env) ==
  LET managerOptions ==
        Merge(Merge([k \in {"setup", "enableSetup", "managerType", "useTranscript"} |->
                       CASE k = "setup" -> setup
                         [] k = "enableSetup" -> True
                         [] k = "managerType" -> Str("local")
                         [] k = "useTranscript" -> True],
                    creationOptions),
              overrideVatManagerOptions)
      upToFactory ==
        <<Event("buildVatSyscallHandler", vatID, <<translators>>),
          Event("vatManagerFactory", vatID, <<vatID, translators>>)>>
  IN IF env.factory = "reject"
     THEN Rejected("manager factory failed", upToFactory, managerOptions)
     ELSE Fulfilled(<<"manager", vatID>>, upToFactory, managerOptions)

loadTestVat(vatID, setup, translators, creationOptions, env) ==
  LET managerOptions ==
        Merge(Merge(creationOptions,
                    [k \in {"setup", "enableSetup", "managerType", "useTranscript"} |->
                       CASE k = "setup" -> setup
                         [] k = "enableSetup" -> True
                         [] k = "managerType" -> Str("local")
                         [] k = "useTranscript" -> True]),
              overrideVatManagerOptions)
      upToFactory ==
        <<Event("buildVatSyscallHandler", vatID, <<translators>>),
          Event("vatManagerFactory", vatID, <<vatID, translators>>)>>
  IN IF env.factory = "reject"
     THEN Rejected("manager factory failed", upToFactory, managerOptions)
     ELSE Fulfilled(<<"manager", vatID>>, upToFactory, managerOptions)


-----------------------------------------------------------------------------
(* The kernel behind the controller: run-queue, transcripts, vats *)

StaticVats == <<"left", "_bootstrap">>

DynamicVat == "dyn"

AllVats == {"left", "_bootstrap", DynamicVat}

Send(target, method, arg) ==
  [type |-> "send", target |-> target, method |-> method, arg |-> arg]

\* a 'create-vat' event: the new vat's bundle is named by `method`
CreateVat(vatID, bundleName) ==
  [type |-> "create-vat", target |-> vatID, method |-> bundleName, arg |-> 0]

\* bootstrap argv values and what the bootstrap vat does for each
Argvs == {1, 2}

\* the vat code: one delivery against the vat's heap yields the new heap
\* and the syscalls (sends) the vat makes
dispatch(vatID, heap, d) ==
  [heap |-> heap + 1,
   syscalls |->
     CASE vatID = "_bootstrap" /\ d.method = "bootstrap" /\ d.arg = 1 ->
            <<Send("left", "ping", 0), CreateVat(DynamicVat, "zcf"),
              Send(DynamicVat, "pong", 0)>>
       [] vatID = "_bootstrap" /\ d.method = "bootstrap" /\ d.arg = 2 ->
            <<CreateVat(DynamicVat, "nope"), Send("left", "ping", 0),
              Send("left", "ping", 1)>>
       [] vatID = "left" /\ d.method = "ping" /\ heap < MaxPings ->
            <<Send(DynamicVat, "pong", heap), Send("_bootstrap", "done", heap)>>
       [] vatID = DynamicVat /\ d.method = "pong" /\ heap < MaxPings ->
            <<Send("left", "ping", heap + 2)>>
       [] OTHER -> <<>>]

EmptyStore ==
  [initialized |-> FALSE, runQueue |-> <<>>,
   transcripts |-> [v \in AllVats |-> <<>>], dynamicVats |-> <<>>]

\* a kernel before start(); processed, enqueued, stepCalls and
\* recreateFailed are history kept for the properties, not kernel state
NewKernel(store) ==
  [started |-> FALSE, store |-> store, heap |-> [v \in AllVats |-> 0],
   live |-> {}, kernelPanic |-> NoError, recreateFailed |-> FALSE,
   processed |-> <<>>, enqueued |-> store.runQueue, stepCalls |-> 0]

\* panic(problem, err): the kernel remembers the error
panic(k, err) == [k EXCEPT !.kernelPanic = err]

\* the error the loader handed to panic, if it did
panicAfter(k, events) ==
  IF \E i \in 1..Len(events) : events[i].fn = "panic"
  THEN panic(k, events[CHOOSE i \in 1..Len(events) : events[i].fn = "panic"].arg[1])
  ELSE k

kernelEnv == [starting |-> TRUE, factory |-> "fulfil"]

\* one entry per vat to bring back at start: static vats of the config,
\* then the dynamic vats the store knows
vatsToRecreate(config, store) ==
  [i \in 1..Len(StaticVats) |->
     [vatID |-> StaticVats[i], dynamic |-> FALSE,
      source |-> [k \in {"bundleName"} |-> Str(config[StaticVats[i]])]]]
  \o [i \in 1..Len(store.dynamicVats) |->
     [vatID |-> store.dynamicVats[i], dynamic |-> TRUE,
      source |-> [k \in {"bundleName"} |-> Str(config[store.dynamicVats[i]])]]]

RECURSIVE recreateVats(_, _)
recreateVats(k, todo) ==
  IF todo = <<>> THEN k
  ELSE LET v == Head(todo)
           r == IF v.dynamic
                THEN recreateDynamicVat(v.vatID, v.source, v.vatID, NoOptions, kernelEnv)
                ELSE recreateStaticVat(v.vatID, v.source, v.vatID, NoOptions, kernelEnv)
           failed == create(v.vatID, v.source, v.vatID, NoOptions, v.dynamic,
                            kernelEnv).status = "rejected"
           k1 == [panicAfter(k, r.events) EXCEPT !.recreateFailed = @ \/ failed]
       IN IF r.status # "fulfilled"
          THEN k1
          ELSE recreateVats([k1 EXCEPT !.live = @ \cup {v.vatID}], Tail(todo))

\* re-deliver a transcript to a fresh vat instance, syscalls disabled; a
\* syscall that differs from the recorded one is a panic
RECURSIVE replay(_, _, _)
replay(vatID, transcript, heap) ==
  IF transcript = <<>> THEN [heap |-> heap, diverged |-> FALSE]
  ELSE LET r == dispatch(vatID, heap, Head(transcript).d)
       IN IF r.syscalls # Head(transcript).syscalls
          THEN [heap |-> heap, diverged |-> TRUE]
          ELSE replay(vatID, Tail(transcript), r.heap)

\* kernel.start(bootstrapVatID, argv)
kernelStart(k, config, argv) ==
  LET k1 == recreateVats(k, vatsToRecreate(config, k.store))
      complete == k1.live = {v.vatID : v \in
                     {vatsToRecreate(config, k.store)[i] :
                        i \in 1..Len(vatsToRecreate(config, k.store))}}
      rep == [v \in AllVats |-> replay(v, k.store.transcripts[v], 0)]
      k2 == [k1 EXCEPT !.heap = [v \in AllVats |-> rep[v].heap]]
      boot == Send("_bootstrap", "bootstrap", argv)
  IN IF ~complete THEN k1
     ELSE IF \E v \in k1.live : rep[v].diverged
     THEN panic(k2, "transcript divergence")
     ELSE IF k.store.initialized THEN [k2 EXCEPT !.started = TRUE]
     ELSE [k2 EXCEPT !.started = TRUE,
                     !.store.initialized = TRUE,
                     !.store.runQueue = Append(@, boot),
                     !.enqueued = Append(@, boot)]

\* processQueueMessage: one crank
crank(k) ==
  LET d == Head(k.store.runQueue)
      k0 == [k EXCEPT !.store.runQueue = Tail(@), !.processed = Append(@, d)]
  IN IF d.type = "create-vat"
     THEN LET r == createVatDynamically(d.target,
                     [n \in {"bundleName"} |-> Str(d.method)], d.target,
                     NoOptions, kernelEnv)
              note == Send("_bootstrap",
                           IF r.status = "fulfilled" THEN "vatCreated"
                           ELSE "vatCreationFailed", 0)
              k1 == [panicAfter(k0, r.events) EXCEPT
                       !.store.runQueue = Append(@, note),
                       !.enqueued = Append(@, note)]
          IN IF r.status = "fulfilled"
             THEN [k1 EXCEPT !.live = @ \cup {d.target},
                             !.store.dynamicVats = Append(@, d.target)]
             ELSE k1
     ELSE IF d.target \notin k.live
     THEN k0
     ELSE LET r == dispatch(d.target, k.heap[d.target], d)
          IN [k0 EXCEPT !.heap[d.target] = r.heap,
                        !.store.runQueue = @ \o r.syscalls,
                        !.enqueued = @ \o r.syscalls,
                        !.store.transcripts[d.target] =
                           Append(@, [d |-> d, syscalls |-> r.syscalls])]

CanRun(k) == k.started /\ k.kernelPanic = NoError /\ k.store.runQueue # <<>>

\* kernel.step(): one crank if there is one
kernelStep(k) == IF CanRun(k) THEN crank(k) ELSE k

\* kernel.run(): cranks until the run-queue is empty or the kernel panics
RECURSIVE kernelRun(_)
kernelRun(k) == IF CanRun(k) THEN kernelRun(crank(k)) ELSE k

\* kernel.queueToExport
kernelQueueToExport(k, vatID, method, arg) ==
  [k EXCEPT !.store.runQueue = Append(@, Send(vatID, method, arg)),
            !.enqueued = Append(@, Send(vatID, method, arg))]


-----------------------------------------------------------------------------
(* The delivery engine crank by crank: the metering controller, the crank
   buffer of the syscall translator and the per-vat reference tables *)

EngineVats == {"left", "dyn", "dyn2"}

\* the meter a vat draws from: the static vat has none, the two dynamic
\* vats share one
meterOf(vatID) == IF vatID = "left" THEN "none" ELSE "m1"

Delivery(target, kref) == [target |-> target, kref |-> kref]

Import(n) == <<"import", n>>

Export(n) == <<"export", n>>

\* the vat code: the syscalls a vat makes for a delivery of `slot`, as a
\* function of the deliveries it has seen before (heap)
vatSyscalls(vatID, heap, slot) ==
  CASE vatID = "left" ->
         <<[target |-> "dyn", slot |-> slot],
           [target |-> "dyn2", slot |-> Export(heap + 1)]>>
    [] vatID = "dyn" ->
         IF heap = 0
         THEN <<[target |-> "left", slot |-> slot]>>
         ELSE <<[target |-> "dyn2", slot |-> slot],
                [target |-> "left", slot |-> Export(heap)]>>
    [] vatID = "dyn2" -> <<[target |-> "dyn", slot |-> slot]>>

\* the translator with a single import slot handed out again and again
krefToSlot_sameSlot(clist, kref) ==
  IF \E p \in clist : p.kref = kref
  THEN (CHOOSE p \in clist : p.kref = kref).slot
  ELSE Import(1)

\* inbound translation: the slot the vat knows the kref by, a fresh import
\* slot when it has never seen it
krefToSlot(clist, kref) ==
  IF \E p \in clist : p.kref = kref
  THEN (CHOOSE p \in clist : p.kref = kref).slot
  ELSE Import(1 + Cardinality({p \in clist : p.slot[1] = "import"}))

\* outbound translation: the kref of a slot, a fresh kref for a new export
slotToKref(clist, slot, nextKref) ==
  IF \E p \in clist : p.slot = slot
  THEN (CHOOSE p \in clist : p.slot = slot).kref
  ELSE nextKref

\* the metering controller charging replayed cranks as well
chargeMeter_replayToo(meters, meterID, used, live) ==
  IF meterID = "none" THEN meters
  ELSE [meters EXCEPT ![meterID].remaining = @ - used]

\* the metering controller: a live crank's use is taken off the meter, a
\* replayed crank's is not
chargeMeter(meters, meterID, used, live) ==
  IF meterID = "none" \/ ~live THEN meters
  ELSE [meters EXCEPT ![meterID].remaining = @ - used]

\* the engine before its first crank; done (with the number of syscalls an
\* aborted crank had made), enqueued, started, topUps, restarts and op are
\* history kept for the properties
NewEngine(queue, budget) ==
  [runQueue |-> queue,
   meters |-> [m \in {"m1"} |-> [remaining |-> budget, exhausted |-> FALSE]],
   vats |-> [v \in EngineVats |-> "live"],
   clist |-> [v \in EngineVats |-> {}],
   nextKref |-> 3,
   transcripts |-> [v \in EngineVats |-> <<>>],
   heap |-> [v \in EngineVats |-> 0],
   current |-> <<>>,
   done |-> <<>>, enqueued |-> queue, started |-> 0, topUps |-> 0,
   restarts |-> 0, op |-> "init"]

\* an abort that tears down every vat drawing from the same meter
abortCrank_allOnMeter(k, why) ==
  LET cr == Head(k.current)
      m == meterOf(cr.vat)
  IN [k EXCEPT !.current = Tail(@),
               !.runQueue = Tail(@),
               !.vats = [v \in EngineVats |->
                           IF meterOf(v) = m THEN "terminated" ELSE @[v]],
               !.clist = [v \in EngineVats |-> IF meterOf(v) = m THEN {} ELSE @[v]],
               !.meters = IF why = "meter"
                          THEN [@ EXCEPT ![m].exhausted = TRUE]
                          ELSE @,
               !.done = Append(@, [d |-> cr.d, outcome |-> "aborted",
                                   lost |-> Len(cr.syscalls)]),
               !.op = IF why = "meter" THEN "meterAbort" ELSE "crashAbort"]

\* the crank in progress ends without committing: its buffer is dropped,
\* its delivery is consumed and its vat is terminated; a meter failure
\* marks the meter exhausted
abortCrank(k, why) ==
  LET cr == Head(k.current)
      m == meterOf(cr.vat)
  IN [k EXCEPT !.current = Tail(@),
               !.runQueue = Tail(@),
               !.vats[cr.vat] = "terminated",
               !.clist[cr.vat] = {},
               !.meters = IF why = "meter"
                          THEN [@ EXCEPT ![m].exhausted = TRUE]
                          ELSE @,
               !.done = Append(@, [d |-> cr.d, outcome |-> "aborted",
                                   lost |-> Len(cr.syscalls)]),
               !.op = IF why = "meter" THEN "meterAbort" ELSE "crashAbort"]

\* the scheduler hands the delivery at the head of the run-queue to its
\* vat: a terminated vat's delivery is rejected; a vat whose meter is
\* already exhausted is terminated; otherwise the delivery's reference is
\* translated and the crank starts with an empty buffer
beginCrank(k) ==
  IF k.runQueue = <<>> THEN [k EXCEPT !.op = "idle"]
  ELSE
  LET d == Head(k.runQueue)
      v == d.target
      slot == krefToSlot(k.clist[v], d.kref)
      begun ==
        [k EXCEPT !.current =
                    Append(@, [d |-> d, vat |-> v,
                               todo |-> vatSyscalls(v, k.heap[v], slot),
                               used |-> 0, sends |-> <<>>, syscalls |-> <<>>,
                               clistAdd |-> {[slot |-> slot, kref |-> d.kref]}
                                            \ k.clist[v],
                               nextKref |-> k.nextKref]),
                  !.started = @ + 1,
                  !.op = "begin"]
  IN IF k.vats[v] = "terminated"
     THEN [k EXCEPT !.runQueue = Tail(@),
                    !.done = Append(@, [d |-> d, outcome |-> "rejected", lost |-> 0]),
                    !.started = @ + 1,
                    !.op = "rejected"]
     ELSE IF meterOf(v) # "none" /\ k.meters[meterOf(v)].exhausted
     THEN abortCrank([begun EXCEPT !.current = <<begun.current[Len(begun.current)]>>],
                     "meter")
     ELSE begun

\* step() starting a delivery whatever else is going on
startCrank_reentrant(k) == beginCrank(k)

\* step() / one turn of run(): no delivery starts while one is in progress
startCrank(k) ==
  IF k.current # <<>> THEN [k EXCEPT !.op = "refused"] ELSE beginCrank(k)

\* a syscall applied to the run-queue at once instead of the crank buffer
doSyscall_writeThrough(k) ==
  LET cr == Head(k.current)
      sc == Head(cr.todo)
      known == k.clist[cr.vat] \cup cr.clistAdd
      kref == slotToKref(known, sc.slot, cr.nextKref)
  IN IF meterOf(cr.vat) # "none"
        /\ cr.used + 1 > k.meters[meterOf(cr.vat)].remaining
     THEN abortCrank(k, "meter")
     ELSE [k EXCEPT !.current[1] =
                      [cr EXCEPT !.todo = Tail(@),
                                 !.used = @ + 1,
                                 !.syscalls = Append(@, sc),
                                 !.clistAdd = @ \cup {[slot |-> sc.slot, kref |-> kref]},
                                 !.nextKref = IF kref = @ THEN @ + 1 ELSE @],
                    !.runQueue = Append(@, Delivery(sc.target, kref)),
                    !.enqueued = Append(@, Delivery(sc.target, kref)),
                    !.op = "syscall"]

\* the vat in the crank makes its next syscall: it is metered, translated
\* and kept in the crank's buffer; a use beyond the meter aborts the crank
doSyscall(k) ==
  LET cr == Head(k.current)
      sc == Head(cr.todo)
      known == k.clist[cr.vat] \cup cr.clistAdd
      kref == slotToKref(known, sc.slot, cr.nextKref)
  IN IF meterOf(cr.vat) # "none"
        /\ cr.used + 1 > k.meters[meterOf(cr.vat)].remaining
     THEN abortCrank(k, "meter")
     ELSE [k EXCEPT !.current[1] =
                      [cr EXCEPT !.todo = Tail(@),
                                 !.used = @ + 1,
                                 !.sends = Append(@, Delivery(sc.target, kref)),
                                 !.syscalls = Append(@, sc),
                                 !.clistAdd = @ \cup {[slot |-> sc.slot, kref |-> kref]},
                                 !.nextKref = IF kref = @ THEN @ + 1 ELSE @],
                    !.op = "syscall"]

\* the crank commits: its delivery leaves the run-queue and everything in
\* its buffer is applied together
commitCrank(k) ==
  LET cr == Head(k.current)
  IN [k EXCEPT !.current = Tail(@),
               !.runQueue = Tail(@) \o cr.sends,
               !.enqueued = @ \o cr.sends,
               !.clist[cr.vat] = @ \cup cr.clistAdd,
               !.nextKref = cr.nextKref,
               !.transcripts[cr.vat] =
                  Append(@, [d |-> cr.d, syscalls |-> cr.syscalls]),
               !.heap[cr.vat] = @ + 1,
               !.meters = chargeMeter(@, meterOf(cr.vat), cr.used, TRUE),
               !.done = Append(@, [d |-> cr.d, outcome |-> "delivered", lost |-> 0]),
               !.op = "commit"]

\* an explicit top-up of a meter
topUp(k, meterID, n) ==
  [k EXCEPT !.meters[meterID] =
              [remaining |-> @.remaining + n, exhausted |-> FALSE],
            !.topUps = @ + 1,
            !.op = "topUp"]

\* the meters after the transcript of a vat has been replayed
RECURSIVE engineReplay(_, _, _)
engineReplay(meters, vatID, transcript) ==
  IF transcript = <<>> THEN meters
  ELSE engineReplay(chargeMeter(meters, meterOf(vatID),
                                Len(Head(transcript).syscalls), FALSE),
                    vatID, Tail(transcript))

\* the kernel process stops and is started again from the persisted state:
\* a crank in progress is lost with its buffer, the live vats are rebuilt
\* by replaying their transcripts
restart(k) ==
  [k EXCEPT !.current = <<>>,
            !.heap = [v \in EngineVats |->
                        IF k.vats[v] = "live" THEN Len(k.transcripts[v]) ELSE 0],
            !.meters =
               engineReplay(
                 engineReplay(
                   engineReplay(@, "left",
                     IF k.vats["left"] = "live" THEN k.transcripts["left"] ELSE <<>>),
                   "dyn",
                   IF k.vats["dyn"] = "live" THEN k.transcripts["dyn"] ELSE <<>>),
                 "dyn2",
                 IF k.vats["dyn2"] = "live" THEN k.transcripts["dyn2"] ELSE <<>>),
            !.restarts = @ + 1,
            !.op = "restart"]

-----------------------------------------------------------------------------
(* The controller *)

\* config.bundles: the bundle name each vat is loaded from
GoodConfig == [v \in AllVats |-> "zcf"]

\* a config whose bundle reference for one vat does not resolve
CorruptConfig(vatID) == [GoodConfig EXCEPT ![vatID] = "nope"]

Configs == {GoodConfig} \cup {CorruptConfig(v) : v \in {"left", DynamicVat}}

\* a persisted state in which one recorded delivery of one vat carries
\* syscalls that the vat's code does not make for it
DivergentStores(store) ==
  UNION {{[store EXCEPT !.transcripts[v][i].syscalls =
             IF @ = <<>> THEN <<Send("left", "ping", 9)>> ELSE Tail(@)] :
           i \in DOMAIN store.transcripts[v]} : v \in AllVats}

\* buildVatController that calls callBootstrap itself after start()
buildVatController_callBootstrap(config, store, argv) ==
  LET k == kernelStart(NewKernel(store), config, argv)
  IN IF k.started
     THEN kernelQueueToExport(k, "_bootstrap", "bootstrap", argv)
     ELSE k

\* buildVatController that accepts a transcript mismatch and carries on
buildVatController_lenient(config, store, argv) ==
  LET k == kernelStart(NewKernel(store), config, argv)
  IN IF k.kernelPanic = "transcript divergence"
     THEN [k EXCEPT !.kernelPanic = NoError, !.started = TRUE]
     ELSE k

buildVatController(config, store, argv) ==
  kernelStart(NewKernel(store), config, argv)

\* step() that awaits kernel.step() twice
step_twice(k) == [kernelStep(kernelStep(k)) EXCEPT !.stepCalls = @ + 1]

step(k) == [kernelStep(k) EXCEPT !.stepCalls = @ + 1]

\* run() that calls kernel.step() instead of kernel.run()
run_oneStep(k) == kernelStep(k)

run(k) == kernelRun(k)

queueToExport(k, vatID, method, arg) ==
  kernelQueueToExport(k, vatID, method, arg)

-----------------------------------------------------------------------------
(* Inputs of the loader calls *)

\* (vatID, translators) pairs of the callers
Callers == {<<"v1", "trA">>, <<"v2", "trB">>}

SourceKeys == {"bundle", "bundleName", "bundleID"}

SourceValues(k) ==
  CASE k = "bundle" -> {Obj("inlineBundle"), Null, Str("inlineSource")}
    [] k = "bundleName" -> {Str("zcf"), Str("legacy"), Str("nope")}
    [] k = "bundleID" -> {Str("b1-good"), Str("b1-nope")}

OptionKeys ==
  {"description", "meterID", "managerType", "enableSetup", "enablePipelining",
   "virtualObjectCacheSize", "useTranscript", "reapInterval", "name",
   "enableDisavow", "bogus"}

OptionValues(k) ==
  CASE k = "description" -> {Str("a vat")}
    [] k = "meterID" -> {Str("m1"), Str(""), Num("0"), Null}
    [] k = "managerType" -> {Str("xs-worker")}
    [] k = "enableSetup" -> {True, False}
    [] k = "enablePipelining" -> {True}
    [] k = "virtualObjectCacheSize" -> {Num("3")}
    [] k = "useTranscript" -> {True, False}
    [] k = "reapInterval" -> {Str("never")}
    [] k = "name" -> {Str("bob")}
    [] k = "enableDisavow" -> {True}
    [] k = "bogus" -> {True}

JSValues ==
  UNION {SourceValues(k) : k \in SourceKeys} \cup UNION {OptionValues(k) : k \in OptionKeys}

Sources ==
  UNION {{f \in [D -> JSValues] : \A k \in D : f[k] \in SourceValues(k)} :
         D \in SUBSET SourceKeys}

OptionBags ==
  UNION {{f \in [D -> JSValues] : \A k \in D : f[k] \in OptionValues(k)} :
         D \in {S \in SUBSET OptionKeys : Cardinality(S) <= MaxOptKeys}}

\* values of makeVatLoader's overrideVatManagerOptions
Overrides ==
  {NoOptions,
   [k \in {"metered"} |-> True],
   [k \in {"enableSetup", "useTranscript"} |-> IF k = "enableSetup" THEN True ELSE False]}

\* no second controller has been built yet
NoController ==
  [built |-> FALSE, kernel |-> NewKernel(EmptyStore), base |-> 0,
   from |-> EmptyStore, steps |-> 0, external |-> 0, ran |-> FALSE]

SetupFn == [t |-> "function", v |-> "setup"]

Idle ==
  [op |-> "none", vatID |-> "", translators |-> "", source |-> NoOptions,
   options |-> NoOptions, setup |-> Undefined, starting |-> TRUE,
   factory |-> "none", status |-> "idle", err |-> NoError, value |-> <<>>, managerOptions |-> NoOptions]

Invoke(op, vatID, translators, source, options, setup, env) ==
  CASE op = "createVatDynamically" ->
         createVatDynamically(vatID, source, translators, options, env)
    [] op = "recreateDynamicVat" ->
         recreateDynamicVat(vatID, source, translators, options, env)
    [] op = "recreateStaticVat" ->
         recreateStaticVat(vatID, source, translators, options, env)
    [] op = "loadTestVat" ->
         loadTestVat(vatID, setup, translators, options, env)

Has(events, fn) == \E i \in 1..Len(events) : events[i].fn = fn

IndexOf(events, fn) == CHOOSE i \in 1..Len(events) : events[i].fn = fn

Count(events, fn) == Cardinality({i \in 1..Len(events) : events[i].fn = fn})

\* the loader takes one call at a time, and none once the kernel has panicked
Ready == call.status = "idle" /\ c.kernelPanic = NoError

\* A call runs up to its first suspension: either it fails before reaching
\* `await vatManagerFactory(...)` and settles, or it is left pending there.
Begin(op, who, source, options, setup) ==
  /\ \E starting \in BOOLEAN :
       \E r \in {Invoke(op, who[1], who[2], source, options, setup,
                        [starting |-> starting, factory |-> "fulfil"])} :
       \E reaches \in {Has(r.events, "vatManagerFactory")} :
          /\ Has(r.events, "provideVatSlogger") \/ starting
          /\ call' = [op |-> op, vatID |-> who[1], translators |-> who[2],
                      source |-> source, options |-> options, setup |-> setup,
                      starting |-> starting, factory |-> "none",
                      status |-> IF reaches THEN "pending" ELSE r.status,
                      err |-> IF reaches THEN NoError ELSE r.err,
                      value |-> <<>>,
                      managerOptions |-> r.managerOptions]
          /\ log' = IF reaches
                    THEN SubSeq(r.events, 1, IndexOf(r.events, "vatManagerFactory"))
                    ELSE r.events
          /\ c' = IF reaches THEN c ELSE panicAfter(c, r.events)
  /\ UNCHANGED <<vatAdminRootKref, overrideVatManagerOptions, states, c2, engine>>

CreateVatDynamically ==
  /\ Ready
  /\ \E who \in Callers, source \in Sources, options \in OptionBags :
       Begin("createVatDynamically", who, source, options, Undefined)

RecreateDynamicVat ==
  /\ Ready
  /\ \E who \in Callers, source \in Sources, options \in OptionBags :
       Begin("recreateDynamicVat", who, source, options, Undefined)

RecreateStaticVat ==
  /\ Ready
  /\ \E who \in Callers, source \in Sources, options \in OptionBags :
       Begin("recreateStaticVat", who, source, options, Undefined)

LoadTestVat ==
  /\ Ready
  /\ \E who \in Callers, options \in OptionBags :
       Begin("loadTestVat", who, NoOptions, options, SetupFn)

\* the promise returned by vatManagerFactory settles and the call resumes
Settle(factory) ==
  /\ call.status = "pending"
  /\ \E r \in {Invoke(call.op, call.vatID, call.translators, call.source,
                      call.options, call.setup,
                      [starting |-> call.starting, factory |-> factory])} :
        /\ call' = [call EXCEPT !.factory = factory,
                                !.status = r.status, !.err = r.err,
                                !.value = r.value,
                                !.managerOptions = r.managerOptions]
        /\ log' = r.events
        /\ c' = panicAfter(c, r.events)
  /\ UNCHANGED <<vatAdminRootKref, overrideVatManagerOptions, states, c2, engine>>

FactoryFulfils == Settle("fulfil")

FactoryRejects == Settle("reject")

\* the caller has consumed the settled result; the loader is ready again
CallerContinues ==
  /\ call.status \in {"fulfilled", "rejected", "thrown"}
  /\ call' = Idle
  /\ log' = <<>>
  /\ UNCHANGED <<vatAdminRootKref, overrideVatManagerOptions, c, states, c2, engine>>

InitLoader ==
  /\ vatAdminRootKref \in {Undefined, Str("ko20")}
  /\ overrideVatManagerOptions \in Overrides
  /\ call = Idle
  /\ log = <<>>
  /\ c = buildVatController(GoodConfig, EmptyStore, 1)
  /\ states = <<c.store>>
  /\ c2 = NoController
  /\ engine = NewEngine(<<>>, 0)

NextLoader ==
  \/ CreateVatDynamically
  \/ RecreateDynamicVat
  \/ RecreateStaticVat
  \/ LoadTestVat
  \/ FactoryFulfils
  \/ FactoryRejects
  \/ CallerContinues

SpecLoader == InitLoader /\ [][NextLoader]_vars


-----------------------------------------------------------------------------
(* A controller stepping its kernel, and a second one built from a checkpoint *)

\* c.step(), then getAllState(storage); the checkpoints are all taken
\* before the second controller is built
Step ==
  /\ ~c2.built
  /\ CanRun(c)
  /\ c' = step(c)
  /\ states' = Append(states, c'.store)
  /\ UNCHANGED <<loaderVars, c2, engine>>

\* setAllState(storage, state_k); buildVatController(cfg, argv).  The state
\* loaded is state_k, or state_k with a transcript the vat does not reproduce
Rebuild ==
  /\ ~c2.built
  /\ \E k \in 1..Len(states), config \in Configs, argv \in Argvs :
     \E store \in {states[k]} \cup DivergentStores(states[k]) :
       c2' = [built |-> TRUE,
              kernel |-> buildVatController(config, store, argv),
              base |-> k - 1, from |-> store,
              steps |-> 0, external |-> 0, ran |-> FALSE]
  /\ UNCHANGED <<loaderVars, c, states, engine>>

Step2 ==
  /\ c2.built
  /\ CanRun(c2.kernel)
  /\ c2' = [c2 EXCEPT !.kernel = step(@), !.steps = @ + 1]
  /\ UNCHANGED <<loaderVars, c, states, engine>>

Run2 ==
  /\ c2.built
  /\ CanRun(c2.kernel)
  /\ c2' = [c2 EXCEPT !.kernel = run(@), !.ran = TRUE]
  /\ UNCHANGED <<loaderVars, c, states, engine>>

QueueToExport2 ==
  /\ c2.built
  /\ c2.kernel.started
  /\ c2.external < MaxExternal
  /\ \E msg \in {<<"left", "ping">>, <<DynamicVat, "pong">>} :
       c2' = [c2 EXCEPT !.kernel = queueToExport(@, msg[1], msg[2], 7),
                        !.external = @ + 1]
  /\ UNCHANGED <<loaderVars, c, states, engine>>

InitKernel ==
  /\ vatAdminRootKref \in {Undefined, Str("ko20")}
  /\ overrideVatManagerOptions = NoOptions
  /\ call = Idle
  /\ log = <<>>
  /\ \E config \in {GoodConfig, CorruptConfig("left")}, argv \in Argvs :
       c = buildVatController(config, EmptyStore, argv)
  /\ states = IF c.started THEN <<c.store>> ELSE <<>>
  /\ c2 = NoController
  /\ engine = NewEngine(<<>>, 0)

NextKernel ==
  \/ Step
  \/ Rebuild
  \/ Step2
  \/ Run2
  \/ QueueToExport2

SpecKernel == InitKernel /\ [][NextKernel]_vars


-----------------------------------------------------------------------------
(* The delivery engine: cranks, syscalls, top-ups and restarts *)

\* run-queues the engine starts with
InitialQueues ==
  {<<Delivery("left", 1), Delivery("dyn", 2)>>,
   <<Delivery("dyn", 1), Delivery("left", 1), Delivery("dyn", 2)>>,
   <<Delivery("dyn2", 1), Delivery("dyn", 1), Delivery("left", 2)>>}

\* controller.step() (or the next turn of run()) reaches the engine
StepCall ==
  /\ engine.started < MaxCranks
  /\ engine' = startCrank(engine)
  /\ UNCHANGED <<loaderVars, kernelVars>>

Syscall ==
  /\ engine.current # <<>>
  /\ Head(engine.current).todo # <<>>
  /\ engine' = doSyscall(engine)
  /\ UNCHANGED <<loaderVars, kernelVars>>

Commit ==
  /\ engine.current # <<>>
  /\ Head(engine.current).todo = <<>>
  /\ engine' = commitCrank(engine)
  /\ UNCHANGED <<loaderVars, kernelVars>>

\* the vat crashes in the middle of its crank
VatCrash ==
  /\ engine.current # <<>>
  /\ engine' = abortCrank(engine, "crash")
  /\ UNCHANGED <<loaderVars, kernelVars>>

TopUp ==
  /\ engine.current = <<>>
  /\ engine.topUps < MaxTopUps
  /\ \E n \in 1..MaxBudget : engine' = topUp(engine, "m1", n)
  /\ UNCHANGED <<loaderVars, kernelVars>>

Restart ==
  /\ engine.restarts < MaxRestarts
  /\ engine.started > 0
  /\ engine' = restart(engine)
  /\ UNCHANGED <<loaderVars, kernelVars>>

InitEngine ==
  /\ vatAdminRootKref = Str("ko20")
  /\ overrideVatManagerOptions = NoOptions
  /\ call = Idle
  /\ log = <<>>
  /\ c = buildVatController(GoodConfig, EmptyStore, 1)
  /\ states = <<c.store>>
  /\ c2 = NoController
  /\ \E queue \in InitialQueues, budget \in 0..MaxBudget :
       engine = NewEngine(queue, budget)

NextEngine ==
  \/ StepCall
  \/ Syscall
  \/ Commit
  \/ VatCrash
  \/ TopUp
  \/ Restart

SpecEngine == InitEngine /\ [][NextEngine]_vars


-----------------------------------------------------------------------------
(* Properties of the vat loader, checked under SpecLoader *)

Settled == call.status \in {"fulfilled", "rejected", "thrown"}

Failed == call.status \in {"rejected", "thrown"}

\* the creation path of the settled call did not produce a manager: it
\* stopped before the manager factory, or the factory's promise rejected
CreationPathFailed ==
  Settled /\ (~Has(log, "vatManagerFactory") \/ call.factory = "reject")

KeeperConsulted == Has(log, "getNamedBundle") \/ Has(log, "getBundle")

C1_DynamicKeys ==
  {"description", "meterID", "managerType", "enableSetup", "enablePipelining",
   "virtualObjectCacheSize", "useTranscript", "reapInterval"}

C1_StaticKeys ==
  {"description", "name", "managerType", "enableDisavow", "enableSetup",
   "enablePipelining", "virtualObjectCacheSize", "useTranscript", "reapInterval"}

C1_UnknownKey ==
  \/ /\ call.op \in {"createVatDynamically", "recreateDynamicVat"}
     /\ \E key \in DOMAIN call.options : key \notin C1_DynamicKeys
  \/ /\ call.op = "recreateStaticVat"
     /\ \E key \in DOMAIN call.options : key \notin C1_StaticKeys

\* C1: a creation whose options bag has a key outside the allow-list of its
\* kind (dynamic for createVatDynamically and recreateDynamicVat, static for
\* recreateStaticVat) fails, and it never invokes the manager factory, builds
\* no syscall handler and records no slog marker.
C1_OptionValidation ==
  C1_UnknownKey =>
    /\ Failed
    /\ ~Has(log, "vatManagerFactory")
    /\ ~Has(log, "buildVatSyscallHandler")
    /\ ~Has(log, "provideVatSlogger")
    /\ ~Has(log, "startup")
    /\ ~Has(log, "finish")

\* a static vat given meterID, or a dynamic vat given name, with a source
\* that resolves: the option check is what fails the call
C1_Witness ==
  /\ C1_UnknownKey
  /\ call.err = "unknown option"
  /\ call.source = [k \in {"bundleName"} |-> Str("zcf")]

\* C6: when the creation path fails inside recreateDynamicVat or
\* recreateStaticVat, panic is invoked exactly once, with the error of the
\* creation path, as the last thing before the caller receives that same
\* error; when recreation succeeds, or is still pending, panic is not invoked.
C6_RecreationEscalates ==
  call.op \in {"recreateDynamicVat", "recreateStaticVat"} =>
    /\ CreationPathFailed =>
         /\ call.status = "rejected"
         /\ call.err = create(call.vatID, call.source, call.translators,
                              call.options, call.op = "recreateDynamicVat",
                              [starting |-> call.starting,
                               factory |-> "reject"]).err
         /\ Count(log, "panic") = 1
         /\ log[Len(log)] = Event("panic", call.vatID, <<call.err>>)
         /\ c.kernelPanic = call.err
    /\ ~CreationPathFailed =>
         /\ Count(log, "panic") = 0
         /\ c.kernelPanic = NoError
         /\ Settled => call.status = "fulfilled" /\ call.value = <<"manager", call.vatID>>

\* a recreation that failed in the manager factory, after the keeper
\* resolved the bundle
C6_Witness ==
  /\ call.op = "recreateStaticVat"
  /\ CreationPathFailed
  /\ call.factory = "reject"
  /\ Has(log, "getNamedBundle")
  /\ c.kernelPanic = "manager factory failed"

\* the kernel the loader belongs to, as it was built
FreshKernel == buildVatController(GoodConfig, EmptyStore, 1)

\* C8: a failing createVatDynamically (bad source, unknown bundle, invalid
\* option, missing admin capability, manager-factory failure) reports the
\* failure to its caller; panic is never invoked by createVatDynamically and
\* the kernel (run-queue, vats, transcripts) is left as it was.
C8_CreationFailureIsLocal ==
  call.op = "createVatDynamically" =>
    /\ CreationPathFailed => Failed /\ call.err # NoError /\ call.value = <<>>
    /\ ~Has(log, "panic")
    /\ c = FreshKernel

\* the manager factory failed, with deliveries waiting on the run-queue
C8_Witness ==
  /\ call.op = "createVatDynamically"
  /\ call.factory = "reject"
  /\ call.status = "rejected"
  /\ c.store.runQueue # <<>>

\* C9: createVatDynamically with vatAdminRootKref absent fails without
\* consulting the keeper, building a syscall handler or invoking the manager
\* factory, and the run-queue is unchanged.
C9_AdminPrecondition ==
  (call.op = "createVatDynamically" /\ ~Truthy(vatAdminRootKref)) =>
    /\ Failed
    /\ ~KeeperConsulted
    /\ ~Has(log, "buildVatSyscallHandler")
    /\ ~Has(log, "vatManagerFactory")
    /\ c.store.runQueue = FreshKernel.store.runQueue

\* the call would have consulted the keeper and reached the factory
C9_Witness ==
  /\ call.op = "createVatDynamically"
  /\ vatAdminRootKref = Undefined
  /\ call.source = [k \in {"bundleName"} |-> Str("zcf")]
  /\ call.options = NoOptions
  /\ call.err = "initializeKernel did not set vatAdminRootKref"

\* C10: a creation whose source has none of bundle, bundleName, bundleID
\* fails, with the keeper not consulted and the manager factory not invoked.
C10_SourceWithNoForm ==
  (/\ call.op \in {"createVatDynamically", "recreateDynamicVat", "recreateStaticVat"}
   /\ DOMAIN call.source \cap {"bundle", "bundleName", "bundleID"} = {}) =>
    /\ Failed
    /\ ~KeeperConsulted
    /\ ~Has(log, "vatManagerFactory")

C10_Witness ==
  /\ call.op = "recreateStaticVat"
  /\ DOMAIN call.source = {}
  /\ call.err = "broken source"
  /\ call.status = "rejected"


-----------------------------------------------------------------------------
(* Properties of the controller and its kernel, checked under SpecKernel *)

\* the second controller has only been stepped since it was built
OnlyStepped == c2.built /\ c2.kernel.started /\ c2.external = 0 /\ ~c2.ran

\* C2: a second kernel built from the persisted state S_k of the first and
\* then stepped i times has persisted state S_(k+i), for every checkpoint
\* k and every i for which the first kernel recorded S_(k+i).
C2_ReplayEquivalence ==
  (OnlyStepped /\ c2.base + c2.steps + 1 <= Len(states)) =>
    c2.kernel.store = states[c2.base + c2.steps + 1]

\* built from state2 or later, with a vat whose transcript had to be
\* replayed, then stepped twice
C2_Witness ==
  /\ OnlyStepped
  /\ c2.base >= 2
  /\ c2.steps >= 2
  /\ states[c2.base + 1].transcripts["left"] # <<>>
  /\ c2.base + c2.steps + 1 <= Len(states)
  /\ c2.kernel.store.transcripts["left"] # states[c2.base + 1].transcripts["left"]

BootstrapDeliveries(queue) ==
  Cardinality({i \in 1..Len(queue) : queue[i].method = "bootstrap"})

\* C3: building a kernel from an already-initialised persisted state S_k and
\* performing no step leaves the persisted state equal to S_k: the bootstrap
\* delivery is not enqueued again, and startup replay adds or removes no
\* transcript entry and no run-queue entry.
C3_RestartPreservesState ==
  (OnlyStepped /\ c2.steps = 0) =>
    /\ c2.kernel.store = states[c2.base + 1]
    /\ BootstrapDeliveries(c2.kernel.store.runQueue)
         = BootstrapDeliveries(states[c2.base + 1].runQueue)
    /\ c2.kernel.processed = <<>>
    /\ c2.kernel.enqueued = states[c2.base + 1].runQueue

\* rebuilt after the bootstrap delivery was processed, with transcripts to
\* replay and deliveries still queued
C3_Witness ==
  /\ OnlyStepped
  /\ c2.steps = 0
  /\ c2.base >= 1
  /\ c2.kernel.store.runQueue # <<>>
  /\ c2.kernel.store.transcripts["_bootstrap"] # <<>>
  /\ c2.kernel.heap["_bootstrap"] > 0

\* C4: deliveries are processed in the order they were enqueued, none
\* skipped, reordered or merged, and each step() processes exactly one.
C4_RunQueueFifo ==
  /\ c.enqueued = c.processed \o c.store.runQueue
  /\ c2.kernel.enqueued = c2.kernel.processed \o c2.kernel.store.runQueue
  /\ Len(c.processed) = c.stepCalls
  /\ ~c2.ran => Len(c2.kernel.processed) = c2.kernel.stepCalls

\* three steps done, deliveries enqueued by cranks among those processed,
\* and more still queued
C4_Witness ==
  /\ c.stepCalls >= 3
  /\ Len(c.store.runQueue) >= 2
  /\ Len(c.enqueued) >= 5
  /\ c2.built /\ c2.external > 0 /\ c2.kernel.stepCalls >= 2

\* C5: run() ends in the state that repeated step() ends in when the
\* run-queue is empty: a second kernel built from S_k, possibly stepped, and
\* then run has the persisted state the stepped kernel ended with.
C5_RunIsRepeatedStep ==
  (/\ c2.built /\ c2.ran /\ c2.external = 0
   /\ states[Len(states)].runQueue = <<>>) =>
    /\ c2.kernel.store = states[Len(states)]
    /\ c2.kernel.store.runQueue = <<>>

\* run() from state0 processed deliveries that cranks of the run enqueued
C5_Witness ==
  /\ c2.built /\ c2.ran /\ c2.external = 0
  /\ c2.base = 0 /\ c2.steps = 0
  /\ states[Len(states)].runQueue = <<>>
  /\ Len(c2.kernel.processed) > Len(states[1].runQueue) + 2

\* C7: once the recreation of a vat has failed at startup, the kernel
\* processes no delivery, for any vat.
C7_HaltAfterRecreationFailure ==
  /\ c.recreateFailed => c.processed = <<>> /\ c.stepCalls = 0
  /\ c2.kernel.recreateFailed =>
       c2.kernel.processed = <<>> /\ c2.kernel.stepCalls = 0

\* the dynamic vat could not be recreated, after the static vats were, with
\* deliveries queued for them
C7_Witness ==
  /\ c2.built
  /\ c2.kernel.recreateFailed
  /\ c2.kernel.kernelPanic = "unknown bundle name"
  /\ "left" \in c2.kernel.live
  /\ \E i \in 1..Len(c2.kernel.store.runQueue) :
       c2.kernel.store.runQueue[i].target = "left"


-----------------------------------------------------------------------------
(* Properties of the source forms, checked under SpecLoader *)

CreateOps == {"createVatDynamically", "recreateDynamicVat", "recreateStaticVat"}

Forms(source) == DOMAIN source \cap {"bundle", "bundleName", "bundleID"}

\* the form a source is read by: bundle, else bundleName, else bundleID
C11_FirstForm(source) ==
  IF "bundle" \in DOMAIN source THEN "bundle"
  ELSE IF "bundleName" \in DOMAIN source THEN "bundleName" ELSE "bundleID"

C11_OnlyFirstForm(source) ==
  [k \in {C11_FirstForm(source)} |-> source[k]]

\* C11 as stated: a creation whose source has two or more of bundle,
\* bundleName, bundleID fails, and the manager factory is not invoked for it.
C11_SeveralFormsFail ==
  (call.op \in CreateOps /\ Cardinality(Forms(call.source)) >= 2) =>
    /\ Failed
    /\ ~Has(log, "vatManagerFactory")

\* C11 (amended): a source with two or more forms is not rejected for that:
\* the call goes exactly as the call whose source has only the first of
\* bundle, bundleName, bundleID that is present; the other forms are ignored.
C11_SeveralFormsUseFirst ==
  (call.op \in CreateOps /\ Cardinality(Forms(call.source)) >= 2) =>
    \E r \in {Invoke(call.op, call.vatID, call.translators,
                     C11_OnlyFirstForm(call.source), call.options, call.setup,
                     [starting |-> call.starting,
                      factory |-> IF call.factory = "reject" THEN "reject"
                                  ELSE "fulfil"])} :
      /\ Has(log, "vatManagerFactory") = Has(r.events, "vatManagerFactory")
      /\ Settled => /\ call.status = r.status
                    /\ call.err = r.err
                    /\ log = r.events
                    /\ call.managerOptions = r.managerOptions

\* an inline bundle together with a bundleName the keeper does not know:
\* the vat is created from the inline bundle
C11_Witness ==
  /\ call.op = "recreateStaticVat"
  /\ call.source = [k \in {"bundle", "bundleName"} |->
                      IF k = "bundle" THEN Obj("inlineBundle") ELSE Str("nope")]
  /\ call.status = "fulfilled"
  /\ call.managerOptions["bundle"] = Obj("inlineBundle")
  /\ ~KeeperConsulted


\* the keeper was asked for the source's bundleName, or for its bundleID,
\* and returned nothing
C12_KeeperReturnedNothing ==
  \E i \in 1..Len(log) :
    \/ /\ log[i].fn = "getNamedBundle"
       /\ log[i].arg = <<Get(call.source, "bundleName").v>>
       /\ log[i].arg[1] \notin {"zcf", "legacy"}
    \/ /\ log[i].fn = "getBundle"
       /\ log[i].arg = <<Get(call.source, "bundleID").v>>
       /\ log[i].arg[1] \notin {"b1-good"}

C13_SourceErrors ==
  {"broken source", "unknown bundle name", "unknown bundleID",
   "vat creation requires bundle"}

\* C13: recreateStaticVat with an options bag that has the key meterID,
\* whatever its value, fails and the manager factory is not invoked; unless
\* the source already failed, the failure is the validation of the options.
C13_StaticMeterIDRejected ==
  (call.op = "recreateStaticVat" /\ "meterID" \in DOMAIN call.options) =>
    /\ Failed
    /\ ~Has(log, "vatManagerFactory")
    /\ call.managerOptions = NoOptions
    /\ call.err \notin C13_SourceErrors => call.err = "unknown option"

\* a static vat with a resolvable bundle and meterID: null
C13_Witness ==
  /\ call.op = "recreateStaticVat"
  /\ call.source = [k \in {"bundleName"} |-> Str("zcf")]
  /\ call.options = [k \in {"meterID"} |-> Null]
  /\ call.err = "unknown option"
  /\ Has(log, "getNamedBundle")


\* the manager factory was invoked on behalf of a static vat
C14_StaticFactoryCall ==
  call.op = "recreateStaticVat" /\ Has(log, "vatManagerFactory")

\* C14 as stated: every manager-factory invocation made for a static vat
\* gets managerOptions with metered = false, whatever the options bag and
\* whatever overrideVatManagerOptions.
C14_StaticNeverMetered ==
  C14_StaticFactoryCall => call.managerOptions["metered"] = False

\* C14 amended: every manager-factory invocation made for a static vat gets
\* metered = false unless overrideVatManagerOptions has a metered key, whose
\* value is then passed instead.
C14_StaticUnmeteredUnlessOverridden ==
  C14_StaticFactoryCall =>
    call.managerOptions["metered"] =
      IF "metered" \in DOMAIN overrideVatManagerOptions
      THEN overrideVatManagerOptions["metered"]
      ELSE False

\* a static vat created without any override
C14_Witness ==
  /\ C14_StaticFactoryCall
  /\ call.status = "fulfilled"
  /\ overrideVatManagerOptions = NoOptions
  /\ call.options = [k \in {"enableDisavow"} |-> True]
  /\ call.managerOptions["metered"] = False


\* a dynamic-vat creation reached the manager factory and the loader has no
\* override of metered
C15_DynamicFactoryCall ==
  /\ call.op \in {"createVatDynamically", "recreateDynamicVat"}
  /\ Has(log, "vatManagerFactory")
  /\ "metered" \notin DOMAIN overrideVatManagerOptions

\* C15: for every dynamic-vat creation that reaches the manager factory with
\* no override of metered, managerOptions.metered is true exactly when a
\* meterID is present (neither null nor undefined) in the options, the empty
\* string and 0 included.
C15_MeteredIffMeterIDPresent ==
  C15_DynamicFactoryCall =>
    call.managerOptions["metered"] =
      Bool(Get(call.options, "meterID") \notin {Undefined, Null})


\* loadTestVat invoked the manager factory
C16_TestVatFactoryCall ==
  call.op = "loadTestVat" /\ Has(log, "vatManagerFactory")

\* the values loadTestVat writes over the caller's creationOptions
C16_Forced(k) ==
  CASE k = "enableSetup" -> True
    [] k = "managerType" -> Str("local")
    [] k = "useTranscript" -> True
    [] k = "setup" -> call.setup

\* C16 as stated: every manager-factory invocation made by loadTestVat gets
\* enableSetup = true, managerType = 'local', useTranscript = true and the
\* caller's setup function, whatever creationOptions and whatever
\* overrideVatManagerOptions.
C16_TestVatFlagsForced ==
  C16_TestVatFactoryCall =>
    \A k \in {"enableSetup", "managerType", "useTranscript", "setup"} :
      call.managerOptions[k] = C16_Forced(k)

\* C16 amended: the four values are forced over whatever creationOptions
\* says, for each of the four keys that overrideVatManagerOptions does not
\* set; a key the override sets carries the override's value.
C16_TestVatFlagsForcedUnlessOverridden ==
  C16_TestVatFactoryCall =>
    \A k \in {"enableSetup", "managerType", "useTranscript", "setup"} :
      call.managerOptions[k] =
        IF k \in DOMAIN overrideVatManagerOptions
        THEN overrideVatManagerOptions[k]
        ELSE C16_Forced(k)

\* creationOptions asks for useTranscript: false and is overruled
C16_Witness ==
  /\ C16_TestVatFactoryCall
  /\ call.status = "fulfilled"
  /\ overrideVatManagerOptions = NoOptions
  /\ call.options = [k \in {"useTranscript"} |-> False]
  /\ call.managerOptions["useTranscript"] = True
  /\ call.managerOptions["setup"] = SetupFn


\* one of the three create operations invoked the manager factory
C17_CreateFactoryCall ==
  call.op \in CreateOps /\ Has(log, "vatManagerFactory")

\* what the literal of create gives a key from the caller's options alone
C17_CallerDerived(k) ==
  CASE k \in {"enableDisavow", "enableSetup", "enablePipelining"} ->
         IF k \in DOMAIN call.options THEN call.options[k] ELSE False
    [] k = "useTranscript" ->
         IF k \in DOMAIN call.options THEN call.options[k] ELSE True
    [] k = "metered" -> Bool(Truthy(Get(call.options, "meterID")))
    [] k = "sourcedConsole" -> Obj(call.vatID)
    [] k = "bundle" ->
         IF "bundle" \in DOMAIN call.source THEN call.source["bundle"]
         ELSE IF "bundleName" \in DOMAIN call.source
         THEN getNamedBundle(call.source["bundleName"])
         ELSE getBundle(call.source["bundleID"])
    [] OTHER -> Get(call.options, k)

\* C17: in the managerOptions handed to the manager factory by the three
\* create operations, every key of overrideVatManagerOptions carries the
\* override's value, whatever the caller's options and the defaults; every
\* other key keeps the value derived from the caller's options.
C17_OverridesWin ==
  C17_CreateFactoryCall =>
    /\ DOMAIN overrideVatManagerOptions \subseteq DOMAIN call.managerOptions
    /\ \A k \in DOMAIN call.managerOptions :
         call.managerOptions[k] =
           IF k \in DOMAIN overrideVatManagerOptions
           THEN overrideVatManagerOptions[k]
           ELSE C17_CallerDerived(k)

\* the caller asks for enableSetup: false, the override says true
C17_Witness ==
  /\ C17_CreateFactoryCall
  /\ call.op = "createVatDynamically"
  /\ overrideVatManagerOptions =
       [k \in {"enableSetup", "useTranscript"} |-> IF k = "enableSetup" THEN True ELSE False]
  /\ call.options = [k \in {"enableSetup"} |-> False]
  /\ call.managerOptions["enableSetup"] = True
  /\ call.managerOptions["useTranscript"] = False
  /\ call.managerOptions["enablePipelining"] = False


\* the defaults of the destructuring in create
C18_DefaultOf(k) == IF k = "useTranscript" THEN True ELSE False

\* C18: with no override configured, the managerOptions passed to the
\* manager factory have enableSetup = false, enableDisavow = false,
\* enablePipelining = false and useTranscript = true when the options bag
\* omits them, and the supplied value, unchanged, when it has them.
C18_OptionDefaults ==
  (C17_CreateFactoryCall /\ overrideVatManagerOptions = NoOptions) =>
    \A k \in {"enableSetup", "enableDisavow", "enablePipelining", "useTranscript"} :
      /\ k \notin DOMAIN call.options => call.managerOptions[k] = C18_DefaultOf(k)
      /\ k \in DOMAIN call.options => call.managerOptions[k] = call.options[k]

\* useTranscript: false is passed through, the other three take their defaults
C18_Witness ==
  /\ C17_CreateFactoryCall
  /\ overrideVatManagerOptions = NoOptions
  /\ call.options = [k \in {"useTranscript"} |-> False]
  /\ call.managerOptions["useTranscript"] = False
  /\ call.managerOptions["enableSetup"] = False
  /\ call.managerOptions["enableDisavow"] = False
  /\ call.managerOptions["enablePipelining"] = False


\* positions in the log of the markers and of the factory call of vatID
C19_At(fn) == {i \in 1..Len(log) : log[i].fn = fn /\ log[i].vat = call.vatID}

\* C19 as stated: every creation through create that reaches the manager
\* factory records a start marker before the factory is invoked and, once
\* the factory has given the manager, a finish marker after it; a finish
\* marker never comes without a start marker before it for the same vatID.
C19_AlwaysBracketed ==
  call.op \in CreateOps =>
    /\ \A f \in C19_At("vatManagerFactory") : \E s \in C19_At("startup") : s < f
    /\ call.status = "fulfilled" =>
         \E e \in C19_At("finish") : \A f \in C19_At("vatManagerFactory") : f < e
    /\ \A e \in C19_At("finish") : \E s \in C19_At("startup") : s < e

\* C19 amended: the markers are recorded when provideVatSlogger reports the
\* vat as starting: then one start marker precedes the factory call and,
\* when the factory gives the manager, one finish marker follows it as the
\* last thing done; when the factory fails there is no finish marker; when
\* the vat is not reported as starting neither marker is recorded; a finish
\* marker never comes without a start marker before it for the same vatID.
C19_BracketedWhenStarting ==
  call.op \in CreateOps =>
    /\ (call.starting /\ Has(log, "vatManagerFactory")) =>
         /\ Cardinality(C19_At("startup")) = 1
         /\ \A f \in C19_At("vatManagerFactory") : \E s \in C19_At("startup") : s < f
    /\ (call.starting /\ call.status = "fulfilled") =>
         C19_At("finish") = {Len(log)}
    /\ call.status # "fulfilled" => C19_At("finish") = {}
    /\ ~call.starting => C19_At("startup") = {} /\ C19_At("finish") = {}
    /\ \A e \in C19_At("finish") : \E s \in C19_At("startup") : s < e

\* a vat reported as starting whose creation completed between the markers
C19_Witness ==
  /\ call.op = "createVatDynamically"
  /\ call.status = "fulfilled"
  /\ call.starting
  /\ C19_At("startup") # {}
  /\ C19_At("finish") = {Len(log)}
  /\ \E f \in C19_At("vatManagerFactory") : \E s \in C19_At("startup") : s < f


\* the syscalls a fresh instance of the vat makes, delivery by delivery,
\* when it is given the deliveries of the transcript from an empty heap
RECURSIVE C20_Redo(_, _, _)
C20_Redo(vatID, transcript, heap) ==
  IF transcript = <<>> THEN <<>>
  ELSE <<dispatch(vatID, heap, Head(transcript).d).syscalls>>
       \o C20_Redo(vatID, Tail(transcript),
                   dispatch(vatID, heap, Head(transcript).d).heap)

C20_Recorded(transcript) == [i \in 1..Len(transcript) |-> transcript[i].syscalls]

\* every prefix of every transcript of kernel k is reproduced exactly
C20_Reproduced(k) ==
  \A v \in AllVats : \A n \in 0..Len(k.store.transcripts[v]) :
    C20_Redo(v, SubSeq(k.store.transcripts[v], 1, n), 0)
      = C20_Recorded(SubSeq(k.store.transcripts[v], 1, n))

\* the second controller was built from a state in which a vat that was
\* brought back has a transcript it does not reproduce
C20_BuiltFromDivergence ==
  /\ c2.built
  /\ \E v \in c2.kernel.live :
       C20_Redo(v, c2.from.transcripts[v], 0) # C20_Recorded(c2.from.transcripts[v])

\* C20: for every vat of a running kernel, replaying any prefix of its
\* transcript against a fresh instance yields, delivery by delivery, exactly
\* the recorded syscalls; and a kernel built from a state in which a
\* replayed delivery makes other syscalls than the recorded ones ends in a
\* kernel panic: it is not started, performs no crank, leaves the persisted
\* state as it was and terminates no vat.
C20_ReplayDeterminism ==
  /\ c.started => C20_Reproduced(c)
  /\ (c2.built /\ c2.kernel.started) => C20_Reproduced(c2.kernel)
  /\ C20_BuiltFromDivergence =>
       /\ c2.kernel.kernelPanic # NoError
       /\ ~c2.kernel.started
       /\ ~CanRun(c2.kernel)
       /\ c2.kernel.processed = <<>>
       /\ c2.steps = 0 /\ ~c2.ran
       /\ c2.kernel.store = c2.from
       /\ ~c2.kernel.recreateFailed =>
            \A v \in AllVats : c2.from.transcripts[v] # <<>> => v \in c2.kernel.live

\* a kernel built from a state where the recorded syscalls of the dynamic
\* vat's first delivery are not the ones it makes
C20_Witness ==
  /\ C20_BuiltFromDivergence
  /\ c2.kernel.kernelPanic = "transcript divergence"
  /\ c2.base >= 2
  /\ Len(c2.from.transcripts["left"]) >= 1
  /\ c2.from.transcripts["left"] = states[c2.base + 1].transcripts["left"]
  /\ c2.from.transcripts[DynamicVat] # states[c2.base + 1].transcripts[DynamicVat]


\* positions in the log of the invocations of fn
C26_At(fn) == {i \in 1..Len(log) : log[i].fn = fn}

\* C26: in every successful creation the syscall handler is built once, by
\* buildVatSyscallHandler(vatID, translators) with the vatID and translators
\* of the call, before the manager factory is invoked; the manager factory
\* is invoked exactly once (and in no call more than once), with that vatID,
\* the composed managerOptions and that handler; the caller gets the
\* factory's result.
C26_CreationProtocol ==
  /\ Cardinality(C26_At("vatManagerFactory")) <= 1
  /\ call.status = "fulfilled" =>
       /\ Cardinality(C26_At("vatManagerFactory")) = 1
       /\ Cardinality(C26_At("buildVatSyscallHandler")) = 1
       /\ \A h \in C26_At("buildVatSyscallHandler"), f \in C26_At("vatManagerFactory") :
            /\ h < f
            /\ log[h].vat = call.vatID
            /\ log[h].arg = <<call.translators>>
            /\ log[f].vat = call.vatID
            /\ log[f].arg = <<call.vatID, log[h].arg[1]>>
       /\ call.managerOptions # NoOptions
       /\ call.value = <<"manager", call.vatID>>

\* the second caller's creation: its own vatID and translators all along
C26_Witness ==
  /\ call.op = "recreateDynamicVat"
  /\ call.status = "fulfilled"
  /\ call.vatID = "v2" /\ call.translators = "trB"
  /\ \E h \in C26_At("buildVatSyscallHandler"), f \in C26_At("vatManagerFactory") :
       h < f /\ log[f].arg = <<"v2", "trB">>
  /\ call.value = <<"manager", "v2">>


\* C27: when the manager factory fails inside create after the start marker
\* was recorded, no finish marker is recorded for that creation (the start
\* marker stays unmatched) and the caller receives the factory's error.
C27_FailedStartupUnmatched ==
  (call.op \in CreateOps /\ call.factory = "reject" /\ Has(log, "startup")) =>
    /\ call.status = "rejected"
    /\ call.err = "manager factory failed"
    /\ Count(log, "startup") = 1
    /\ ~Has(log, "finish")
    /\ \E f \in C26_At("vatManagerFactory") : \E s \in C26_At("startup") : s < f

\* a dynamic creation whose factory failed after the start marker
C27_Witness ==
  /\ call.op = "createVatDynamically"
  /\ call.factory = "reject"
  /\ call.status = "rejected"
  /\ Has(log, "startup")
  /\ ~Has(log, "finish")
  /\ log[Len(log)].fn = "vatManagerFactory"


\* the source of the call gives create no object bundle: no form at all, or
\* a first form that is not, or does not resolve to, an object
C28_Unresolvable ==
  \/ Forms(call.source) = {}
  \/ TypeOf(C17_CallerDerived("bundle")) # "object"

\* the options bag has a key that the list for the vat's kind does not have
C28_UnknownKey ==
  \E k \in DOMAIN call.options :
    \/ k \in {"bogus"}
    \/ call.op = "recreateStaticVat" /\ k = "meterID"
    \/ call.op # "recreateStaticVat" /\ k \in {"name", "enableDisavow"}

\* C28: in create, source resolution precedes option validation, which
\* precedes every side effect: a creation with an unresolvable source and
\* an unknown option key fails with the source error; and in every failed
\* validation (source or options) none of provideVatSlogger,
\* makeSourcedConsole, buildVatSyscallHandler and the manager factory was
\* called.
C28_ValidationOrder ==
  (call.op \in CreateOps /\ call.status # "thrown") =>
    /\ C28_Unresolvable => (Failed /\ call.err \in C13_SourceErrors)
    /\ (~C28_Unresolvable /\ C28_UnknownKey) => (Failed /\ call.err = "unknown option")
    /\ call.err \in C13_SourceErrors \cup {"unknown option"} =>
         /\ \A i \in 1..Len(log) :
              log[i].fn \notin {"provideVatSlogger", "makeSourcedConsole",
                                "buildVatSyscallHandler", "vatManagerFactory"}
         /\ call.managerOptions = NoOptions

\* an unknown bundle name together with an unknown option key
C28_Witness ==
  /\ call.op = "createVatDynamically"
  /\ call.source = [k \in {"bundleName"} |-> Str("nope")]
  /\ call.options = [k \in {"bogus"} |-> True]
  /\ call.err = "unknown bundle name"
  /\ Has(log, "getNamedBundle")


\* C29: when the source has an inline bundle, that bundle is the one passed
\* to the manager factory and the keeper is never consulted, whatever other
\* forms are present; when it has a bundleName and no bundle, only
\* getNamedBundle is consulted; getBundle is consulted only when bundleID is
\* the sole form.
C29_FormPrecedence ==
  call.op \in CreateOps =>
    /\ "bundle" \in DOMAIN call.source =>
         /\ ~Has(log, "getNamedBundle") /\ ~Has(log, "getBundle")
         /\ Has(log, "vatManagerFactory") =>
              call.managerOptions["bundle"] = call.source["bundle"]
    /\ ("bundleName" \in DOMAIN call.source /\ "bundle" \notin DOMAIN call.source) =>
         /\ ~Has(log, "getBundle")
         /\ call.status # "thrown" =>
              /\ Count(log, "getNamedBundle") = 1
              /\ log[1] = Event("getNamedBundle", call.vatID,
                                <<call.source["bundleName"].v>>)
    /\ Has(log, "getBundle") =>
         /\ Forms(call.source) = {"bundleID"}
         /\ log[1] = Event("getBundle", call.vatID, <<call.source["bundleID"].v>>)

\* all three forms present: the inline bundle is used, the keeper is not asked
C29_Witness ==
  /\ call.op = "recreateStaticVat"
  /\ Forms(call.source) = {"bundle", "bundleName", "bundleID"}
  /\ call.source["bundle"] = Obj("inlineBundle")
  /\ call.status = "fulfilled"
  /\ call.managerOptions["bundle"] = Obj("inlineBundle")
  /\ ~Has(log, "getNamedBundle") /\ ~Has(log, "getBundle")

\* C30: every invocation of the manager factory made by create passes a
\* managerOptions.bundle that is a non-null object; a creation whose resolved
\* bundle is not an object, an inline bundle of null or a string included,
\* fails with 'vat creation requires bundle' before the factory is invoked.
C30_BundleIsObject ==
  (call.op \in CreateOps /\ call.status # "thrown") =>
    /\ Has(log, "vatManagerFactory") =>
         /\ call.managerOptions["bundle"].t = "object"
         /\ call.managerOptions["bundle"] # Null
    /\ ("bundle" \in DOMAIN call.source
        /\ (call.source["bundle"] = Null \/ call.source["bundle"].t # "object")) =>
         /\ call.err = "vat creation requires bundle"
         /\ ~Has(log, "vatManagerFactory")


-----------------------------------------------------------------------------
(* Properties of the delivery engine, checked under SpecEngine *)

C21_Remaining == engine.meters["m1"].remaining

\* C21: a meter's remaining budget is never negative; from one state to the
\* next it increases only by an explicit top-up and decreases only when a
\* crank commits, it does not change during the replay of a restart, and a
\* crank whose use exceeds the remaining budget terminates the owning vat
\* and leaves the meter at its pre-crank value, marked exhausted.
C21_MeterMonotonicity ==
  /\ [](C21_Remaining >= 0)
  /\ [][/\ C21_Remaining' > C21_Remaining => engine'.op = "topUp"
        /\ C21_Remaining' < C21_Remaining => engine'.op = "commit"
        /\ engine'.op = "restart" => engine'.meters = engine.meters
        /\ engine'.op = "meterAbort" =>
             /\ C21_Remaining' = C21_Remaining
             /\ engine'.meters["m1"].exhausted
             /\ engine'.vats[Head(engine.runQueue).target] = "terminated"
             /\ meterOf(Head(engine.runQueue).target) = "m1"]_vars

\* a metered vat ran and was charged, the kernel restarted and replayed its
\* transcript, and a later crank of the vat went beyond what was left
C21_Witness ==
  /\ engine.op = "meterAbort"
  /\ engine.restarts = 1
  /\ engine.transcripts["dyn"] # <<>>
  /\ engine.vats["dyn"] = "terminated"
  /\ engine.meters["m1"].exhausted
  /\ C21_Remaining = 1


\* C22: when a crank exhausts its meter only the owning vat is terminated;
\* the kernel keeps running (no crank is left in progress and the next
\* step is accepted), the other queued deliveries keep their order and are
\* processed in the order they were enqueued, and every later delivery
\* addressed to the terminated vat is rejected, not executed.
C22_ExhaustionIsVatLocal ==
  /\ [](/\ engine.op = "meterAbort" =>
             engine.current = <<>> /\ startCrank(engine).op # "refused"
        /\ \A i \in 1..Len(engine.done) : engine.done[i].d = engine.enqueued[i]
        /\ \A i \in 1..Len(engine.done), j \in 1..Len(engine.done) :
             (i < j /\ engine.done[i].outcome = "aborted"
                    /\ engine.done[j].d.target = engine.done[i].d.target)
               => engine.done[j].outcome = "rejected")
  /\ [][engine'.op = "meterAbort" =>
          /\ \A v \in EngineVats \ {Head(engine.runQueue).target} :
               engine'.vats[v] = engine.vats[v] /\ engine'.clist[v] = engine.clist[v]
          /\ engine'.runQueue = Tail(engine.runQueue)]_vars

\* the dynamic vat ran out of meter, the static vat's delivery behind it was
\* still made, and the next delivery for the dynamic vat was rejected
C22_Witness ==
  /\ Len(engine.done) = 3
  /\ engine.done[1].d.target = "dyn" /\ engine.done[1].outcome = "aborted"
  /\ engine.done[2].d.target = "left" /\ engine.done[2].outcome = "delivered"
  /\ engine.done[3].d.target = "dyn" /\ engine.done[3].outcome = "rejected"
  /\ engine.meters["m1"].exhausted
  /\ engine.vats = [v \in EngineVats |-> IF v = "dyn" THEN "terminated" ELSE "live"]

C24_Persisted(k) ==
  [runQueue |-> k.runQueue, clist |-> k.clist, transcripts |-> k.transcripts,
   nextKref |-> k.nextKref, meters |-> k.meters, vats |-> k.vats]

\* C24: a delivery commits all of its effects or none: while the crank runs
\* nothing of it is in the persisted state; a commit adds its run-queue
\* additions, its reference-table changes and its transcript entry together;
\* after a crank aborted by metering or by a crash (of the vat or of the
\* kernel) the persisted state has none of its syscall effects.
C24_CrankAtomicity ==
  [][LET cr == Head(engine.current)
         d == Head(engine.runQueue)
     IN /\ engine'.op \in {"begin", "syscall", "refused", "idle", "restart"} =>
             C24_Persisted(engine') = C24_Persisted(engine)
        /\ engine'.op = "commit" =>
             /\ engine'.runQueue = Tail(engine.runQueue) \o cr.sends
             /\ Len(cr.sends) = Len(cr.syscalls)
             /\ cr.syscalls = vatSyscalls(cr.vat, engine.heap[cr.vat],
                                          krefToSlot(engine.clist[cr.vat], cr.d.kref))
             /\ engine'.clist[cr.vat] = engine.clist[cr.vat] \cup cr.clistAdd
             /\ engine'.transcripts[cr.vat] =
                  Append(engine.transcripts[cr.vat],
                         [d |-> cr.d, syscalls |-> cr.syscalls])
        /\ engine'.op \in {"meterAbort", "crashAbort"} =>
             /\ engine'.runQueue = Tail(engine.runQueue)
             /\ engine'.transcripts = engine.transcripts
             /\ engine'.nextKref = engine.nextKref
             /\ engine'.enqueued = engine.enqueued
             /\ \A v \in EngineVats \ {d.target} :
                  engine'.clist[v] = engine.clist[v]
             /\ engine'.clist[d.target] = {}]_vars

\* a crank that had made one of its two syscalls when its vat crashed: the
\* run-queue holds nothing that was not enqueued by a committed crank
C24_Witness ==
  /\ engine.op = "crashAbort"
  /\ engine.done[Len(engine.done)].lost = 1
  /\ engine.done[Len(engine.done)].d.target = "left"
  /\ engine.enqueued \in InitialQueues
  /\ engine.runQueue = SubSeq(engine.enqueued, Len(engine.done) + 1, Len(engine.enqueued))

\* the slots and krefs a vat knows, those of its crank in progress included
C25_Known(v) ==
  engine.clist[v] \cup
    UNION {engine.current[i].clistAdd :
             i \in {j \in 1..Len(engine.current) : engine.current[j].vat = v}}

\* C25: for each live vat the mapping between its slots and krefs is
\* one-to-one in both directions, and a pair once made does not change as
\* long as the vat exists; a terminated vat has no mapping left.
C25_ReferenceBijection ==
  /\ [](\A v \in EngineVats :
          /\ \A p \in C25_Known(v), q \in C25_Known(v) :
               (p.slot = q.slot) <=> (p.kref = q.kref)
          /\ engine.vats[v] = "terminated" => engine.clist[v] = {})
  /\ [][\A v \in EngineVats :
          engine'.vats[v] = "live" => engine.clist[v] \subseteq engine'.clist[v]]_vars

\* a vat that knows two imports, and a vat with an import and an export
C25_Witness ==
  /\ Cardinality({p \in engine.clist["dyn"] : p.slot[1] = "import"}) = 2
  /\ \E p \in engine.clist["left"] : p.slot[1] = "export"
  /\ \E p \in engine.clist["left"] : p.slot[1] = "import"
  /\ engine.vats["dyn"] = "live"


====
